---------------------------- MODULE Spec2Model ----------------------------
(***************************************************************************)
(* A model of the rshark dissection core (src/src/lib.rs): the primitive   *)
(* integer decoders signed / unsigned, the value constructors, the         *)
(* fallback dissector RawBytes and the tree renderer Val::pretty_print.    *)
(*                                                                         *)
(* Representation.                                                         *)
(*  - A byte is a number in 0..255, a buffer a sequence of bytes.          *)
(*  - A machine integer is kept at full width as a sign and a magnitude:   *)
(*    [neg |-> BOOLEAN, mag |-> big-endian bytes without leading zeros].   *)
(*    64-bit values do not fit the checker's integers, so arithmetic on    *)
(*    them is done on the byte sequences.                                  *)
(*  - A Rust string is a sequence of one-character strings.                *)
(*  - Result<T> is [tag |-> "Ok", value |-> v] or                          *)
(*    [tag |-> "Err", error |-> e].                                        *)
(***************************************************************************)
EXTENDS Integers, Sequences, FiniteSets

VARIABLES data, call, ret, val, out

vars == <<data, call, ret, val, out>>

---------------------------------------------------------------------------
(* Bounds of the model *)

\* longest byte buffer a caller hands in
MaxLen == 17

\* deepest indent_level a caller passes to pretty_print
MaxIndent == 1

\* most fields a dissector puts into one Subpacket
MaxChildren == 2

---------------------------------------------------------------------------
(* Sequences, bytes and strings *)

Reverse(s) == [i \in 1..Len(s) |-> s[Len(s) + 1 - i]]

RECURSIVE Strip(_)
\* a magnitude without its leading zero bytes
Strip(s) == IF s = <<>> THEN <<>>
            ELSE IF Head(s) = 0 THEN Strip(Tail(s)) ELSE s

RECURSIVE Concat(_)
\* the concatenation of a sequence of strings
Concat(ss) == IF ss = <<>> THEN <<>> ELSE Head(ss) \o Concat(Tail(ss))

RECURSIVE Join(_, _)
\* [String]::join(sep)
Join(ss, sep) == IF ss = <<>> THEN <<>>
                 ELSE IF Len(ss) = 1 THEN Head(ss)
                 ELSE Head(ss) \o sep \o Join(Tail(ss), sep)

Repeat(c, n) == [i \in 1..n |-> c]

DigitChars == <<"0","1","2","3","4","5","6","7","8","9","a","b","c","d","e","f">>

Digit(d) == DigitChars[d + 1]

RECURSIVE DecDigits(_)
DecDigits(n) == IF n < 10 THEN <<Digit(n)>>
                ELSE DecDigits(n \div 10) \o <<Digit(n % 10)>>

\* format!["{}", n] of a usize
FmtUsize(n) == DecDigits(n)

\* format!["{:02x}", b] of a byte
FmtByteHex(b) == <<Digit(b \div 16), Digit(b % 16)>>

---------------------------------------------------------------------------
(* Machine integers *)

Num(neg, mag) == [neg |-> neg, mag |-> mag]

Types == {"u8", "i8", "u16", "i16", "u32", "i32", "u64", "i64"}

ByteOrders == {"BigEndian", "LittleEndian"}

IsSigned(T) == T \in {"i8", "i16", "i32", "i64"}

Width(T) == CASE T \in {"u8", "i8"} -> 1
              [] T \in {"u16", "i16"} -> 2
              [] T \in {"u32", "i32"} -> 4
              [] T \in {"u64", "i64"} -> 8

\* |T::MAX| and |T::MIN| as magnitudes
MaxMag(T) == IF IsSigned(T)
             THEN <<127>> \o Repeat(255, Width(T) - 1)
             ELSE Repeat(255, Width(T))

MinMag(T) == IF IsSigned(T)
             THEN <<128>> \o Repeat(0, Width(T) - 1)
             ELSE <<>>

RECURSIVE LexLe(_, _)
LexLe(a, b) == IF a = <<>> THEN TRUE
               ELSE IF Head(a) # Head(b) THEN Head(a) < Head(b)
               ELSE LexLe(Tail(a), Tail(b))

\* a <= b on magnitudes
MagLe(a, b) == \/ Len(a) < Len(b)
               \/ Len(a) = Len(b) /\ LexLe(a, b)

Some(v) == [some |-> TRUE, value |-> v]
None == [some |-> FALSE]

Ok(v) == [tag |-> "Ok", value |-> v]
Err(e) == [tag |-> "Err", error |-> e]

\* the checked cast of an integer into T: Some when MIN <= n <= MAX
FromPrimitiveUnchecked(T, n) == Some(n)

FromPrimitive(T, n) ==
    IF (IF n.neg THEN MagLe(n.mag, MinMag(T)) ELSE MagLe(n.mag, MaxMag(T)))
    THEN Some(n) ELSE None

\* x.to_u64()
to_u64(x) == FromPrimitive("u64", x)

RECURSIVE AddOne(_)
\* s + 1 at the width of s, the carry out of the top byte dropped
AddOne(s) == IF s = <<>> THEN <<>>
             ELSE IF s[Len(s)] = 255
                  THEN AddOne(SubSeq(s, 1, Len(s) - 1)) \o <<0>>
                  ELSE SubSeq(s, 1, Len(s) - 1) \o <<s[Len(s)] + 1>>

Invert(s) == [i \in 1..Len(s) |-> 255 - s[i]]

\* the bytes of the buffer, most significant first
Ordered(E, buffer) == IF E = "BigEndian" THEN buffer ELSE Reverse(buffer)

\* E::read_u16 / read_u32 / read_u64 on a buffer of exactly that width
ReadUnsignedSwapped(E, buffer) == Num(FALSE, Strip(Reverse(Ordered(E, buffer))))

ReadUnsigned(E, buffer) == Num(FALSE, Strip(Ordered(E, buffer)))

\* E::read_i16 / read_i32 / read_i64: the same bytes as two's complement
ReadSigned(E, buffer) ==
    LET be == Ordered(E, buffer)
    IN  IF be[1] >= 128
        THEN Num(TRUE, Strip(AddOne(Invert(be))))
        ELSE Num(FALSE, Strip(be))

\* buffer[0] as u8
ReadU8(buffer) == Num(FALSE, Strip(<<buffer[1]>>))

---------------------------------------------------------------------------
(* Error *)

Underflow(expected, have, subject) ==
    [kind |-> "Underflow", expected |-> expected, have |-> have,
     subject |-> subject]

InvalidData(msg) == [kind |-> "InvalidData", msg |-> msg]

\* impl fmt::Display for Error
Display(e) ==
    IF e.kind = "Underflow"
    THEN <<"u","n","d","e","r","f","l","o","w",":"," ">> \o e.subject
         \o <<" ","e","x","p","e","c","t","e","d"," ">> \o FmtUsize(e.expected)
         \o <<" ","B",","," ","h","a","v","e"," ">> \o FmtUsize(e.have)
    ELSE <<"i","n","v","a","l","i","d"," ","d","a","t","a",":"," ">> \o e.msg

---------------------------------------------------------------------------
(* Primitive decoders *)

\* Option::ok_or
ok_or(opt, e) == IF opt.some THEN Ok(opt.value) ELSE Err(e)

SizeErrorNoLen(r, len) ==
    IF r.tag = "Ok" THEN r ELSE Err(InvalidData(r.error))

\* .map_err(|s| format!["{} ({} B)", s, len]).map_err(Error::InvalidData)
SizeError(r, len) ==
    IF r.tag = "Ok" THEN r
    ELSE Err(InvalidData(r.error \o <<" ", "(">> \o FmtUsize(len)
                         \o <<" ", "B", ")">>))

signed(T, E, buffer) ==
    LET len == Len(buffer)
        conversion_error ==
            <<"F","a","i","l","e","d"," ","t","o"," ","c","o","n","v","e","r","t",
              " ","i","n","t","e","g","e","r">>
    IN  SizeError(
          CASE len = 1 -> ok_or(FromPrimitive(T, ReadU8(buffer)), conversion_error)
            [] len \in {2, 4, 8} ->
                 ok_or(FromPrimitive(T, ReadSigned(E, buffer)), conversion_error)
            [] OTHER ->
                 Err(<<"I","n","v","a","l","i","d"," ","i","n","t","e","g","e","r",
                       " ","s","i","z","e">>),
          len)

unsignedExactWidth(T, E, buffer) ==
    LET len == Len(buffer)
    IN  SizeError(
          IF len = Width(T) /\ len \in {1, 2, 4, 8}
          THEN ok_or(FromPrimitive(T, ReadUnsigned(E, buffer)),
                     <<"F","a","i","l","e","d"," ","t","o"," ","c","o","n","v","e","r","t",
                       " ","{","}"," ","B"," ","i","n","t","e","g","e","r">>)
          ELSE Err(<<"I","n","v","a","l","i","d"," ","i","n","t","e","g","e","r",
                     " ","s","i","z","e",":"," ","{","}">>),
          len)

unsigned(T, E, buffer) ==
    LET len == Len(buffer)
        conversion_error ==
            <<"F","a","i","l","e","d"," ","t","o"," ","c","o","n","v","e","r","t",
              " ","{","}"," ","B"," ","i","n","t","e","g","e","r">>
    IN  SizeError(
          CASE len = 1 -> ok_or(FromPrimitive(T, ReadU8(buffer)), conversion_error)
            [] len \in {2, 4, 8} ->
                 ok_or(FromPrimitive(T, ReadUnsigned(E, buffer)), conversion_error)
            [] OTHER ->
                 Err(<<"I","n","v","a","l","i","d"," ","i","n","t","e","g","e","r",
                       " ","s","i","z","e",":"," ","{","}">>),
          len)

---------------------------------------------------------------------------
(* Formatting of integers *)

RECURSIVE DivStep(_, _, _)
\* long division of a magnitude by a small divisor r, carry coming in
DivStep(s, r, carry) ==
    IF s = <<>> THEN [q |-> <<>>, rem |-> carry]
    ELSE LET cur == carry * 256 + Head(s)
             rest == DivStep(Tail(s), r, cur % r)
         IN  [q |-> <<cur \div r>> \o rest.q, rem |-> rest.rem]

RECURSIVE FmtRadix(_, _)
FmtRadix(mag, r) ==
    IF mag = <<>> THEN <<>>
    ELSE LET d == DivStep(mag, r, 0)
         IN  FmtRadix(Strip(d.q), r) \o <<Digit(d.rem)>>

\* format!["{}"], ["{:b}"], ["{:o}"], ["{:x}"] of a u64
FmtU64(value, r) == IF value.mag = <<>> THEN <<"0">> ELSE FmtRadix(value.mag, r)

\* format!["{}", i] of a signed integer
FmtInt(i) == IF i.neg THEN <<"-">> \o FmtU64(i, 10) ELSE FmtU64(i, 10)

---------------------------------------------------------------------------
(* Val *)

SignedVal(i) == [kind |-> "Signed", value |-> i]
UnsignedVal(value, radix) == [kind |-> "Unsigned", value |-> value, radix |-> radix]
EnumVal(i, s) == [kind |-> "Enum", value |-> i, label |-> s]
StringVal(s) == [kind |-> "String", text |-> s]
AddressVal(bytes, encoded) == [kind |-> "Address", bytes |-> bytes, encoded |-> encoded]
Subpacket(values) == [kind |-> "Subpacket", values |-> values]
Bytes(bytes) == [kind |-> "Bytes", bytes |-> bytes]
ErrorVal(e) == [kind |-> "Error", error |-> e]
WarningVal(w) == [kind |-> "Warning", error |-> w]

\* Val::unsigned(x, radix)
ValUnsigned(x, radix) ==
    LET value == to_u64(x)
    IN  IF value.some THEN Ok(UnsignedVal(value.value, radix))
        ELSE Err(InvalidData(
                 <<"C","a","n","n","o","t"," ","c","o","n","v","e","r","t"," ">>
                 \o FmtInt(x) \o <<" ","t","o"," ","u","6","4">>))

\* Val::base10(x)
base10(x) == ValUnsigned(x, 10)

\* Error::underflow(expected, have, subject)
underflow(expected, have, subject) == Err(Underflow(expected, have, subject))

\* the number of bytes pretty_print shows of a Bytes value
PrintLimit == 16

to_printOneShort(bytes) ==
    IF Len(bytes) < PrintLimit THEN bytes ELSE SubSeq(bytes, 1, PrintLimit - 1)

\* the bytes of a Bytes value that are shown
to_print(bytes) ==
    IF Len(bytes) < PrintLimit THEN bytes ELSE SubSeq(bytes, 1, PrintLimit)

\* the rendering of a Bytes value
FmtBytes(bytes) ==
    LET s0 == FmtUsize(Len(bytes)) \o <<" ","B"," ","[">>
        s1 == s0 \o Concat([i \in 1..Len(to_print(bytes)) |->
                                <<" ">> \o FmtByteHex(to_print(bytes)[i])])
        s2 == IF Len(bytes) > PrintLimit THEN s1 \o <<" ",".",".",".">> ELSE s1
    IN  s2 \o <<" ","]">>

FmtUnsignedAlwaysDecimal(value, radix) == FmtU64(value, 10)

\* the rendering of an Unsigned value in its radix
FmtUnsigned(value, radix) ==
    CASE radix = 2 -> FmtU64(value, 2)
      [] radix = 8 -> FmtU64(value, 8)
      [] radix = 10 -> FmtU64(value, 10)
      [] radix = 16 -> <<"0","x">> \o FmtU64(value, 16)
      [] OTHER -> FmtU64(value, 10) \o <<" ","(","b","a","s","e"," ">>
                  \o FmtUsize(radix) \o <<")">>

IndentOneDeeper(indent_level) == Repeat(" ", 2 * (indent_level + 1))

\* the indent of the children of a Subpacket printed at indent_level
Indent(indent_level) == Repeat(" ", 2 * indent_level)

ErrorMarkerUnbracketed(e) == <<"E","r","r","o","r",":"," ">> \o Display(e)

\* the rendering of a child that is an Err
ErrorMarker(e) ==
    <<"<","<"," ","E","r","r","o","r",":"," ">> \o Display(e) \o <<" ",">",">">>

RECURSIVE pretty_print(_, _)
pretty_print(self, indent_level) ==
    CASE self.kind = "Subpacket" ->
           LET indent == Indent(indent_level)
               line(kv) ==
                   indent \o kv[1] \o <<":"," ">>
                   \o (IF kv[2].tag = "Ok"
                       THEN pretty_print(kv[2].value, indent_level + 1)
                       ELSE ErrorMarker(kv[2].error))
           IN  <<"\n">> \o Join([i \in 1..Len(self.values) |-> line(self.values[i])],
                               <<"\n">>)
      [] self.kind = "Signed" -> FmtInt(self.value)
      [] self.kind = "Unsigned" -> FmtUnsigned(self.value, self.radix)
      [] self.kind = "Enum" ->
           FmtU64(self.value, 10) \o <<" ","(">> \o self.label \o <<")">>
      [] self.kind = "String" -> self.text
      [] self.kind = "Address" -> self.encoded
      [] self.kind = "Bytes" -> FmtBytes(self.bytes)
      [] self.kind = "Warning" ->
           <<"W","a","r","n","i","n","g",":"," ">> \o Display(self.error)
      [] self.kind = "Error" ->
           <<"E","r","r","o","r",":"," ">> \o Display(self.error)

---------------------------------------------------------------------------
(* RawBytes, the dissector of last resort *)

RawBytes(short_name, full_name) ==
    [short_name |-> short_name, full_name |-> full_name]

boxed(short_name, full_name) == RawBytes(short_name, full_name)

unknown_protocol(description) ==
    RawBytes(<<"U","N","K","N","O","W","N">>, description)

dissectShown(self, bytes) ==
    Ok(Subpacket(<< <<(<<"r","a","w"," ","d","a","t","a">>), Ok(Bytes(to_print(bytes)))>> >>))

\* <RawBytes as Protocol>::dissect
dissect(self, bytes) ==
    Ok(Subpacket(<< <<(<<"r","a","w"," ","d","a","t","a">>), Ok(Bytes(bytes))>> >>))

---------------------------------------------------------------------------
(* The byte buffers a caller hands in *)

FirstBytes == {0, 1, 127, 128, 255, 222}

FillBytes == {0, 2, 255, 173}

\* first byte, then the fill byte up to length n
Pattern(first, fill, n) == [i \in 1..n |-> IF i = 1 THEN first ELSE fill]

Buffers ==
    LET fwd == {Pattern(a, b, n) : a \in FirstBytes, b \in FillBytes, n \in 0..MaxLen}
    IN  fwd \cup {Reverse(s) : s \in fwd}

---------------------------------------------------------------------------
(* The caller *)

\* the fallback dissectors a caller builds
Protocols ==
    { boxed(<<"R","A","W">>, <<"R","a","w"," ","b","y","t","e","s">>),
      unknown_protocol(<<"e","t","h","e","r","t","y","p","e"," ","0">>) }

\* the display radixes a caller asks for
Radixes == {0, 2, 7, 8, 10, 16, 42, 255}

\* the integers a caller takes from a buffer of at most eight bytes
IntegersOf(buffer) ==
    {ReadUnsigned("BigEndian", buffer), ReadSigned("BigEndian", buffer)}

\* the buffers a dissector splits into the fields of a Subpacket
FieldBuffers == { <<>>, <<1>>, <<1, 2>>, <<222, 173>>, <<255, 255, 255>> }

FieldKinds == {"payload", "inner", "len", "hdr", "csum", "trailer",
               "ttl", "type", "name", "addr"}

\* one named field of a dissected packet, as a dissector builds it
Field(kind, bytes) ==
    CASE kind = "payload" ->
           <<(<<"p","a","y","l","o","a","d">>), Ok(Bytes(bytes))>>
      [] kind = "inner" ->
           <<(<<"i","n","n","e","r">>),
             dissect(unknown_protocol(<<"i","n","n","e","r">>), bytes)>>
      [] kind = "len" ->
           <<(<<"l","e","n">>),
             LET r == unsigned("u16", "BigEndian", bytes)
             IN  IF r.tag = "Ok" THEN base10(r.value) ELSE r>>
      [] kind = "hdr" ->
           <<(<<"h","d","r">>),
             underflow(4, Len(bytes),
                       <<"l","e","n","g","t","h"," ","f","i","e","l","d">>)>>
      [] kind = "csum" ->
           <<(<<"c","s","u","m">>),
             Ok(WarningVal(InvalidData(
                    <<"b","a","d"," ","c","h","e","c","k","s","u","m">>)))>>
      [] kind = "trailer" ->
           <<(<<"t","r","a","i","l","e","r">>),
             Ok(ErrorVal(Underflow(2, Len(bytes),
                                   <<"t","r","a","i","l","e","r">>)))>>
      [] kind = "ttl" ->
           <<(<<"t","t","l">>),
             LET r == signed("i64", "LittleEndian", bytes)
             IN  IF r.tag = "Ok" THEN Ok(SignedVal(r.value)) ELSE r>>
      [] kind = "type" ->
           <<(<<"t","y","p","e">>),
             Ok(EnumVal(Num(FALSE, Strip(<<Len(bytes)>>)), <<"I","P","v","4">>))>>
      [] kind = "name" ->
           <<(<<"n","a","m","e">>), Ok(StringVal(<<"e","t","h","0">>))>>
      [] kind = "addr" ->
           <<(<<"a","d","d","r">>),
             Ok(AddressVal(bytes,
                           <<"0","x">> \o Concat([i \in 1..Len(bytes) |->
                                                     FmtByteHex(bytes[i])])))>>

NoProtocol == RawBytes(<<>>, <<>>)

NoCall == [op |-> "none", T |-> "-", E |-> "-", radix |-> 0,
           x |-> Num(FALSE, <<>>), proto |-> NoProtocol]

Nothing == [tag |-> "None"]

Init ==
    /\ data \in Buffers
    /\ call = NoCall
    /\ ret = Nothing
    /\ val = Nothing
    /\ out = Nothing

\* let r = signed::<T, E>(data)
Signed(T, E) ==
    /\ call.op = "none"
    /\ call' = [NoCall EXCEPT !.op = "signed", !.T = T, !.E = E]
    /\ ret' = signed(T, E, data)
    /\ UNCHANGED <<data, val, out>>

\* let r = unsigned::<T, E>(data)
Unsigned(T, E) ==
    /\ call.op = "none"
    /\ call' = [NoCall EXCEPT !.op = "unsigned", !.T = T, !.E = E]
    /\ ret' = unsigned(T, E, data)
    /\ UNCHANGED <<data, val, out>>

\* let val = proto.dissect(data)
Dissect(proto) ==
    /\ call.op = "none"
    /\ call' = [NoCall EXCEPT !.op = "dissect", !.proto = proto]
    /\ val' = dissect(proto, data)
    /\ UNCHANGED <<data, ret, out>>

\* let val = Val::Bytes(data.to_vec())
MakeBytes ==
    /\ call.op = "none"
    /\ call' = [NoCall EXCEPT !.op = "bytes"]
    /\ val' = Ok(Bytes(data))
    /\ UNCHANGED <<data, ret, out>>

\* let val = Val::unsigned(x, radix), x an integer taken from the buffer
MakeUnsigned(x, radix) ==
    /\ call.op = "none"
    /\ call' = [NoCall EXCEPT !.op = "unsigned_val", !.x = x, !.radix = radix]
    /\ val' = ValUnsigned(x, radix)
    /\ UNCHANGED <<data, ret, out>>

\* let val = Val::Subpacket(vec![...]), one entry per field
MakeSubpacket(kinds) ==
    /\ call.op = "none"
    /\ data \in FieldBuffers
    /\ call' = [NoCall EXCEPT !.op = "subpacket"]
    /\ val' = Ok(Subpacket([i \in 1..Len(kinds) |-> Field(kinds[i], data)]))
    /\ UNCHANGED <<data, ret, out>>

\* Ok(val) => print!["{}", val.pretty_print(indent_level)]
PrettyPrint(indent_level) ==
    /\ val.tag = "Ok"
    /\ out = Nothing
    /\ out' = [tag |-> "Printed", indent_level |-> indent_level,
               text |-> pretty_print(val.value, indent_level)]
    /\ UNCHANGED <<data, call, ret, val>>

\* Err(e) => println!["Error: {}", e]
ReportError ==
    /\ val.tag = "Err"
    /\ out = Nothing
    /\ out' = [tag |-> "Reported", indent_level |-> 0,
               text |-> <<"E","r","r","o","r",":"," ">> \o Display(val.error)
                        \o <<"\n">>]
    /\ UNCHANGED <<data, call, ret, val>>

Next ==
    \/ \E T \in Types, E \in ByteOrders : Signed(T, E)
    \/ \E T \in Types, E \in ByteOrders : Unsigned(T, E)
    \/ \E proto \in Protocols : Dissect(proto)
    \/ MakeBytes
    \/ \E x \in (IF Len(data) \in 1..8 THEN IntegersOf(data) ELSE {}),
          radix \in Radixes : MakeUnsigned(x, radix)
    \/ \E k \in 0..MaxChildren :
          \E kinds \in [1..k -> FieldKinds] : MakeSubpacket(kinds)
    \/ \E indent_level \in 0..MaxIndent : PrettyPrint(indent_level)
    \/ ReportError

Spec == Init /\ [][Next]_vars

---------------------------------------------------------------------------
(* What the properties below are stated with *)

IsDigitChar(c) == c \in {"0","1","2","3","4","5","6","7","8","9"}

DigitVal(c) == CHOOSE d \in 0..15 : DigitChars[d + 1] = c

RECURSIVE ParseUsize(_)
\* the number a string of decimal digits denotes
ParseUsize(ds) == IF ds = <<>> THEN 0
                  ELSE 10 * ParseUsize(SubSeq(ds, 1, Len(ds) - 1))
                       + DigitVal(ds[Len(ds)])

\* the decimal digits that occur in a string
DigitsOf(s) == SelectSeq(s, IsDigitChar)

StartsWith(s, prefix) ==
    Len(s) >= Len(prefix) /\ SubSeq(s, 1, Len(prefix)) = prefix

\* a magnitude as a number, for magnitudes of at most three bytes
RECURSIVE NatOf(_)
NatOf(mag) == IF mag = <<>> THEN 0
              ELSE 256 * NatOf(SubSeq(mag, 1, Len(mag) - 1)) + mag[Len(mag)]

\* n lies in the range of the integer type T
Representable(T, n) ==
    LET w == Width(T)
        l == Len(n.mag)
    IN  IF ~IsSigned(T) THEN ~n.neg /\ l <= w
        ELSE IF ~n.neg THEN l < w \/ (l = w /\ n.mag[1] <= 127)
        ELSE \/ l < w
             \/ l = w /\ n.mag[1] < 128
             \/ l = w /\ n.mag[1] = 128 /\ \A i \in 2..w : n.mag[i] = 0

\* a magnitude as exactly n bytes, zero bytes in front
PadLeft(mag, n) == Repeat(0, n - Len(mag)) \o mag

RECURSIVE Split(_, _)
\* the pieces of s between the occurrences of the character c
Split(s, c) ==
    IF \A i \in 1..Len(s) : s[i] # c THEN <<s>>
    ELSE LET i == CHOOSE j \in 1..Len(s) :
                      s[j] = c /\ \A k \in 1..(j - 1) : s[k] # c
         IN  <<SubSeq(s, 1, i - 1)>> \o Split(SubSeq(s, i + 1, Len(s)), c)

\* the number of spaces a line begins with
LeadingSpaces(line) ==
    IF \A i \in 1..Len(line) : line[i] = " " THEN Len(line)
    ELSE (CHOOSE j \in 1..Len(line) :
              line[j] # " " /\ \A k \in 1..(j - 1) : line[k] = " ") - 1

RECURSIVE MulAdd(_, _, _)
\* mag * r + carry on magnitudes, r and carry small
MulAdd(s, r, carry) ==
    IF s = <<>> THEN (IF carry = 0 THEN <<>> ELSE <<carry>>)
    ELSE LET cur == s[Len(s)] * r + carry
         IN  MulAdd(SubSeq(s, 1, Len(s) - 1), r, cur \div 256) \o <<cur % 256>>

RECURSIVE ParseMag(_, _)
\* the magnitude a string of digits denotes in radix r
ParseMag(ds, r) ==
    IF ds = <<>> THEN <<>>
    ELSE Strip(MulAdd(ParseMag(SubSeq(ds, 1, Len(ds) - 1), r), r,
                      DigitVal(ds[Len(ds)])))

\* every character of ds is a digit of radix r (lowercase above 9)
DigitsIn(ds, r) ==
    ds # <<>> /\ \A i \in 1..Len(ds) : \E d \in 0..(r - 1) : DigitChars[d + 1] = ds[i]

Space == " "
NewLine == "\n"

\* the lines of a rendering that begin with exactly n spaces
LinesAt(text, n) ==
    LET at(l) == l # <<>> /\ LeadingSpaces(l) = n /\ Len(l) > n
    IN  SelectSeq(Tail(Split(text, NewLine)), at)

PrintedSubpacket ==
    /\ out.tag = "Printed"
    /\ val.tag = "Ok"
    /\ val.value.kind = "Subpacket"

IsDecode == call.op \in {"signed", "unsigned"}

ValidLen(n) == n \in {1, 2, 4, 8}

IsInvalidData(r) == r.tag = "Err" /\ r.error.kind = "InvalidData"

\* the error message carries exactly the number n in decimal
NamesLength(msg, n) ==
    DigitsOf(msg) # <<>> /\ ParseUsize(DigitsOf(msg)) = n

RECURSIVE Negate(_, _)
\* (0 - s - borrow) modulo 256^Len(s), byte by byte from the low end
Negate(s, borrow) ==
    IF s = <<>> THEN <<>>
    ELSE LET b == s[Len(s)]
         IN  Negate(SubSeq(s, 1, Len(s) - 1), IF b + borrow > 0 THEN 1 ELSE 0)
             \o <<(256 - b - borrow) % 256>>

\* the buffer's bytes, most significant first
MsbFirst(E, buffer) ==
    [i \in 1..Len(buffer) |->
        IF E = "BigEndian" THEN buffer[i] ELSE buffer[Len(buffer) + 1 - i]]

\* the buffer read as an unsigned integer of its own width
UnsignedValueOf(E, buffer) == Num(FALSE, Strip(MsbFirst(E, buffer)))

\* the buffer read as a two's-complement integer of its own width
TwosComplementOf(E, buffer) ==
    LET be == MsbFirst(E, buffer)
    IN  IF be[1] >= 128 THEN Num(TRUE, Strip(Negate(be, 0)))
        ELSE Num(FALSE, Strip(be))

\* the integer the decoder reads at the width of the buffer: signed reads a
\* single byte as u8, and 2, 4 or 8 bytes as i16, i32 or i64
ValueRead(op, E, buffer) ==
    IF op = "signed" /\ Len(buffer) > 1
    THEN TwosComplementOf(E, buffer)
    ELSE UnsignedValueOf(E, buffer)

---------------------------------------------------------------------------
(* Claims about the primitive decoders *)

\* C1: for every buffer whose length is not 1, 2, 4 or 8 (the empty buffer
\* included), every target type and byte order, signed and unsigned both
\* return Err(InvalidData(msg)) with msg naming the buffer's length.
C1_InvalidSize ==
    (IsDecode /\ ~ValidLen(Len(data)))
        => /\ IsInvalidData(ret)
           /\ NamesLength(ret.error.msg, Len(data))

C1_Witness ==
    /\ call.op = "unsigned" /\ data = <<>>
    /\ IsInvalidData(ret)

\* C2: signed on a buffer of length 1, 2, 4 or 8 with a signed target type
\* wide enough returns Ok(v), v the two's-complement value of the buffer at
\* 8/16/32/64 bits in the byte order; a single byte >= 0x80 is negative.
C2_TwosComplement ==
    (/\ call.op = "signed" /\ ValidLen(Len(data)) /\ IsSigned(call.T)
     /\ Width(call.T) >= Len(data))
        => ret = Ok(TwosComplementOf(call.E, data))

\* C3 as stated: a buffer whose length is not the byte width of T is
\* reported as an InvalidData error.
C3_WidthMismatchIsError ==
    (IsDecode /\ Len(data) # Width(call.T)) => IsInvalidData(ret)

\* C3 as amended: a buffer whose length differs from the width of T is a
\* size error only when the length is not 1, 2, 4 or 8; otherwise it is
\* decoded at the buffer's own width, a representable value is returned
\* unchanged (neither padded nor truncated) and a value that is not
\* representable is a conversion error, not a size error.
C3_DecodedAtBufferWidth ==
    (IsDecode /\ Len(data) # Width(call.T))
        => LET v == ValueRead(call.op, call.E, data)
               size == <<"I","n","v","a","l","i","d"," ","i","n","t","e","g","e","r",
                         " ","s","i","z","e">>
           IN  IF ~ValidLen(Len(data))
               THEN IsInvalidData(ret) /\ StartsWith(ret.error.msg, size)
               ELSE IF Representable(call.T, v)
               THEN ret = Ok(v)
               ELSE /\ IsInvalidData(ret)
                    /\ ~StartsWith(ret.error.msg, size)
                    /\ NamesLength(ret.error.msg, Len(data))

C3_Witness ==
    /\ call.op = "unsigned" /\ call.T = "u16" /\ call.E = "BigEndian"
    /\ data = <<1>>
    /\ ret.tag = "Ok" /\ NatOf(ret.value.mag) = 1

\* C4: unsigned on a buffer of length 1, 2, 4 or 8 with a target type able
\* to hold the result returns Ok(v), v the unsigned integer whose bytes are
\* the buffer's (big-endian: first byte most significant; little-endian:
\* first byte least significant); [0x01, 0x02] read big-endian is 258.
C4_UnsignedValue ==
    (/\ call.op = "unsigned" /\ ValidLen(Len(data))
     /\ ~IsSigned(call.T) /\ Width(call.T) >= Len(data))
        => /\ ret.tag = "Ok"
           /\ ~ret.value.neg
           /\ LET n == Len(data)
                  bytes == PadLeft(ret.value.mag, n)
              IN  /\ Len(ret.value.mag) <= n
                  /\ (ret.value.mag # <<>> => ret.value.mag[1] # 0)
                  /\ \A i \in 1..n :
                        bytes[i] = IF call.E = "BigEndian"
                                   THEN data[i] ELSE data[n + 1 - i]
           /\ (data = <<1, 2>> /\ call.E = "BigEndian"
                  => NatOf(ret.value.mag) = 258)

C4_Witness ==
    /\ call.op = "unsigned" /\ call.T = "u16" /\ call.E = "BigEndian"
    /\ data = <<1, 2>>
    /\ ret.tag = "Ok"

---------------------------------------------------------------------------
(* Claims about the fallback dissector and the renderer *)

\* C6: for every RawBytes dissector, however it was built and named, and
\* every input, dissect returns Ok(Subpacket([("raw data", Ok(Bytes(b)))])):
\* one child, named "raw data", holding all of the input in order.
C6_RawBytesVerbatim ==
    call.op = "dissect"
        => /\ val.tag = "Ok"
           /\ val.value.kind = "Subpacket"
           /\ Len(val.value.values) = 1
           /\ LET child == val.value.values[1]
              IN  /\ child[1] = <<"r","a","w"," ","d","a","t","a">>
                  /\ child[2].tag = "Ok"
                  /\ child[2].value.kind = "Bytes"
                  /\ Len(child[2].value.bytes) = Len(data)
                  /\ \A i \in 1..Len(data) : child[2].value.bytes[i] = data[i]

C6_Witness ==
    /\ call.op = "dissect"
    /\ call.proto.short_name = <<"U","N","K","N","O","W","N">>
    /\ Len(data) > PrintLimit
    /\ val.tag = "Ok"

\* C7 as stated: pretty_print(indent_level) of a Subpacket emits one line
\* per immediate child, each beginning with exactly 2 * (indent_level + 1)
\* spaces and then "<name>: "; the fallback result for [0xDE, 0xAD] printed
\* at level 0 is a newline and then "  raw data: 2 B [ de ad ]".
C7_ChildIndentOneDeeper ==
    PrintedSubpacket
        => LET n == 2 * (out.indent_level + 1)
               kids == val.value.values
               lines == LinesAt(out.text, n)
           IN  /\ Len(lines) = Len(kids)
               /\ \A i \in 1..Len(kids) :
                     StartsWith(lines[i], Repeat(Space, n) \o kids[i][1] \o <<":", " ">>)
               /\ (call.op = "dissect" /\ data = <<222, 173>> /\ out.indent_level = 0
                     => out.text = <<"\n", " ", " ", "r","a","w"," ","d","a","t","a",
                                     ":"," ","2"," ","B"," ","["," ","d","e"," ",
                                     "a","d"," ","]">>)

\* C7 as amended: pretty_print(indent_level) of a Subpacket emits a newline
\* and then one line per immediate child, each beginning with exactly
\* 2 * indent_level spaces and then "<name>: "; every other line it emits
\* belongs to a nested Subpacket and is indented deeper. The fallback result
\* for [0xDE, 0xAD] printed at level 0 is a newline and then
\* "raw data: 2 B [ de ad ]", with no leading space.
C7_ChildIndent ==
    PrintedSubpacket
        => LET n == 2 * out.indent_level
               kids == val.value.values
               all == Split(out.text, NewLine)
               lines == LinesAt(out.text, n)
           IN  /\ Head(all) = <<>>
               /\ Len(lines) = Len(kids)
               /\ \A i \in 1..Len(kids) :
                     StartsWith(lines[i], Repeat(Space, n) \o kids[i][1] \o <<":", " ">>)
               /\ \A j \in 2..Len(all) :
                     all[j] # <<>> => LeadingSpaces(all[j]) >= n
               /\ (call.op = "dissect" /\ data = <<222, 173>> /\ out.indent_level = 0
                     => out.text = <<"\n", "r","a","w"," ","d","a","t","a",
                                     ":"," ","2"," ","B"," ","["," ","d","e"," ",
                                     "a","d"," ","]">>)

C7_Witness ==
    /\ PrintedSubpacket
    /\ call.op = "subpacket"
    /\ out.indent_level = 1
    /\ Len(val.value.values) = 2
    /\ val.value.values[1][2].tag = "Ok"
    /\ val.value.values[1][2].value.kind = "Subpacket"

\* C8: a Bytes value of N bytes renders as "N B [ xx xx ... ]": above 16
\* bytes exactly the first 16 as two-digit hex groups and then the ellipsis
\* "..."; at 16 bytes or fewer (0 included) exactly N groups, in order, and
\* no ellipsis.
C8_BytesRendering ==
    (call.op = "bytes" /\ out.tag = "Printed")
        => LET n == Len(data)
               m == IF n > 16 THEN 16 ELSE n
               toks == Split(out.text, Space)
           IN  /\ Len(toks) = 3 + m + (IF n > 16 THEN 1 ELSE 0) + 1
               /\ DigitsIn(toks[1], 10) /\ ParseUsize(toks[1]) = n
               /\ toks[2] = <<"B">>
               /\ toks[3] = <<"[">>
               /\ \A i \in 1..m :
                     /\ Len(toks[3 + i]) = 2
                     /\ DigitsIn(toks[3 + i], 16)
                     /\ NatOf(ParseMag(toks[3 + i], 16)) = data[i]
               /\ (n > 16 => toks[3 + m + 1] = <<".", ".", ".">>)
               /\ toks[Len(toks)] = <<"]">>

C8_Witness ==
    /\ call.op = "bytes"
    /\ out.tag = "Printed"
    /\ Len(data) > 16
    /\ data[16] # data[17]

\* C9: pretty_print of a Subpacket whose children are any mix of Ok and Err
\* renders every child, in stored order: an Err(e) child as
\* "<name>: << Error: <display of e> >>", every Ok sibling before or after
\* it by its own rendering; no child is dropped or reordered.
C9_ErrorsContained ==
    (PrintedSubpacket /\ call.op = "subpacket")
        => LET n == 2 * out.indent_level
               kids == val.value.values
               lines == LinesAt(out.text, n)
               label(i) == Repeat(Space, n) \o kids[i][1] \o <<":", " ">>
               open == <<"<","<"," ","E","r","r","o","r",":"," ">>
           IN  /\ Len(lines) = Len(kids)
               /\ \A i \in 1..Len(kids) :
                     IF kids[i][2].tag = "Err"
                     THEN lines[i] = label(i) \o open \o Display(kids[i][2].error)
                                     \o <<" ", ">", ">">>
                     ELSE /\ StartsWith(lines[i], label(i))
                          /\ ~StartsWith(lines[i], label(i) \o open)
                          /\ (kids[i][2].value.kind # "Subpacket"
                                 => Len(lines[i]) > Len(label(i)))

C9_Witness ==
    /\ PrintedSubpacket
    /\ call.op = "subpacket"
    /\ Len(val.value.values) = 2
    /\ val.value.values[1][2].tag = "Err"
    /\ val.value.values[2][2].tag = "Ok"

\* C10: Val::unsigned stores the value whatever the radix, and pretty_print
\* renders it for every radix: 10 in decimal, 2 in binary, 8 in octal, 16 in
\* lowercase hexadecimal after "0x" (255 is "0xff"), and any other radix as
\* the decimal value followed by " (base <radix>)".
C10_RadixRendering ==
    (call.op = "unsigned_val" /\ val.tag = "Ok")
        => /\ val.value.kind = "Unsigned"
           /\ val.value.value = call.x
           /\ val.value.radix = call.radix
           /\ out.tag = "Printed" =>
                LET mag == call.x.mag
                    r == call.radix
                    text == out.text
                    toks == Split(text, Space)
                IN  /\ r \in {2, 8, 10} =>
                          DigitsIn(text, r) /\ ParseMag(text, r) = mag
                    /\ r = 16 =>
                          /\ StartsWith(text, <<"0", "x">>)
                          /\ DigitsIn(SubSeq(text, 3, Len(text)), 16)
                          /\ ParseMag(SubSeq(text, 3, Len(text)), 16) = mag
                    /\ r \notin {2, 8, 10, 16} =>
                          /\ Len(toks) = 3
                          /\ DigitsIn(toks[1], 10) /\ ParseMag(toks[1], 10) = mag
                          /\ toks[2] = <<"(", "b", "a", "s", "e">>
                          /\ toks[3][Len(toks[3])] = ")"
                          /\ DigitsIn(SubSeq(toks[3], 1, Len(toks[3]) - 1), 10)
                          /\ ParseUsize(SubSeq(toks[3], 1, Len(toks[3]) - 1)) = r
                    /\ (mag = <<255>> /\ r = 16 => text = <<"0", "x", "f", "f">>)

C10_Witness ==
    /\ call.op = "unsigned_val"
    /\ call.radix = 16
    /\ call.x = Num(FALSE, <<255>>)
    /\ out.tag = "Printed"
    /\ out.text = <<"0", "x", "f", "f">>

===========================================================================
